---- MODULE Spec2Model ----
(***************************************************************************)
(* Model of the signal moderation backend (src/server.js): the two JSON    *)
(* collections pending.json / approved.json, the submission rate limiter,  *)
(* the Basic-auth gate and the five request handlers.  Node runs each      *)
(* handler to completion (all file I/O is synchronous), so a handler is    *)
(* one atomic action.  JavaScript strings are sequences of one-character   *)
(* strings; time is Date.now() in milliseconds.                            *)
(***************************************************************************)
EXTENDS Integers, Sequences, FiniteSets, TLC

VARIABLES
    pendingFile,      \* content of pending.json: a sequence of records
    approvedFile,     \* content of approved.json: a sequence of records
    submissionHits,   \* the Map ip -> timestamps of the rate limiter
    now,              \* Date.now()
    resp,             \* the response of the last handled request
    nextSerial,       \* history: serial number given to the next stored record
    approveLog,       \* history: ids of the approve requests that passed authentication and returned 200
    rejectedSerials,  \* history: serials of records removed by a successful reject
    rejectedIds,      \* history: ids that were the target of a successful reject
    allowedLog,       \* history: per ip, the timestamps of the submissions the limiter let pass
    writeFaults,      \* environment: the requests so far during which a file write failed
    calls,            \* the requests the server has received and not answered yet
    answers           \* history: the most recent requests answered, oldest first

vars == <<pendingFile, approvedFile, submissionHits, now, resp, nextSerial,
          approveLog, rejectedSerials, rejectedIds, allowedLog, writeFaults,
          calls, answers>>

\* the variables only the specifications that follow single requests use
logVars == <<calls, answers>>

(***************************************************************************)
(* Bounds of the model.                                                    *)
(***************************************************************************)
MaxSubmits == 2
MaxWriteFaults == 1
MaxNow == 1000
MaxLimiterNow == 601001
MaxLimiterRecords == 1
MaxProxied == 1

(***************************************************************************)
(* JavaScript values and strings.                                          *)
(***************************************************************************)
Undef == [t |-> "undef", s |-> <<>>]
Str(s) == [t |-> "str", s |-> s]
Num == [t |-> "num", s |-> <<>>]

IsString(v) == v.t = "str"

IsSpace(c) == c \in {" ", "\t", "\n"}

RECURSIVE TrimStart(_)
TrimStart(s) ==
    IF s # <<>> /\ IsSpace(Head(s)) THEN TrimStart(Tail(s)) ELSE s

RECURSIVE TrimEnd(_)
TrimEnd(s) ==
    IF s # <<>> /\ IsSpace(s[Len(s)]) THEN TrimEnd(SubSeq(s, 1, Len(s) - 1)) ELSE s

Trim(s) == TrimEnd(TrimStart(s))

\* String.prototype.indexOf(ch), 1-based; 0 when absent
IndexOf(s, ch) ==
    IF \E i \in 1..Len(s) : s[i] = ch
    THEN CHOOSE i \in 1..Len(s) : s[i] = ch /\ \A j \in 1..(i - 1) : s[j] # ch
    ELSE 0

StartsWith(s, p) == Len(s) >= Len(p) /\ SubSeq(s, 1, Len(p)) = p

Digits == <<"0", "1", "2", "3", "4", "5", "6", "7", "8", "9">>

\* decimal rendering of a number inside a template literal
RECURSIVE DecimalString(_)
DecimalString(n) ==
    IF n < 10 THEN <<Digits[n + 1]>>
    ELSE DecimalString(n \div 10) \o <<Digits[(n % 10) + 1]>>

\* Math.ceil(a / b) for b > 0
CeilDiv(a, b) == IF a >= 0 THEN (a + b - 1) \div b ELSE -((-a) \div b)

Max(a, b) == IF a >= b THEN a ELSE b

(***************************************************************************)
(* Admin authentication: safeEqual, parseBasicAuth, requireAdmin.          *)
(***************************************************************************)
Ascii ==
    <<" ", "!", "\"", "#", "$", "%", "&", "'", "(", ")", "*", "+", ",", "-", ".", "/",
      "0", "1", "2", "3", "4", "5", "6", "7", "8", "9", ":", ";", "<", "=", ">", "?", "@",
      "A", "B", "C", "D", "E", "F", "G", "H", "I", "J", "K", "L", "M", "N", "O", "P", "Q",
      "R", "S", "T", "U", "V", "W", "X", "Y", "Z", "[", "\\", "]", "^", "_", "GRAVE", "a",
      "b", "c", "d", "e", "f", "g", "h", "i", "j", "k", "l", "m", "n", "o", "p", "q", "r",
      "s", "t", "u", "v", "w", "x", "y", "z", "{", "|", "}", "~">>

Base64Chars ==
    <<"A", "B", "C", "D", "E", "F", "G", "H", "I", "J", "K", "L", "M", "N", "O", "P", "Q",
      "R", "S", "T", "U", "V", "W", "X", "Y", "Z", "a", "b", "c", "d", "e", "f", "g", "h",
      "i", "j", "k", "l", "m", "n", "o", "p", "q", "r", "s", "t", "u", "v", "w", "x", "y",
      "z", "0", "1", "2", "3", "4", "5", "6", "7", "8", "9", "+", "/">>

\* the character a byte outside printable ASCII decodes to
ReplacementChar == "U+FFFD"

\* Buffer.from(String(a)): the bytes of an ASCII string
ByteOf(c) == 31 + (CHOOSE i \in 1..Len(Ascii) : Ascii[i] = c)
BytesOf(s) == [i \in 1..Len(s) |-> ByteOf(s[i])]

\* buf.toString('utf8')
CharOf(b) == IF b >= 32 /\ b <= 126 THEN Ascii[b - 31] ELSE ReplacementChar
Utf8ToString(bytes) == [i \in 1..Len(bytes) |-> CharOf(bytes[i])]

\* the decoder also takes the URL-safe alphabet: '-' for '+', '_' for '/'
IsBase64Char(c) == c \in {"-", "_"} \/ \E i \in 1..Len(Base64Chars) : Base64Chars[i] = c
SextetOf(c) ==
    IF c = "-" THEN 62
    ELSE IF c = "_" THEN 63
    ELSE (CHOOSE i \in 1..Len(Base64Chars) : Base64Chars[i] = c) - 1

\* the sextets of the base64 text: characters outside the alphabet are
\* skipped, the text ends at the first padding character
RECURSIVE Base64Sextets(_)
Base64Sextets(s) ==
    IF s = <<>> \/ Head(s) = "=" THEN <<>>
    ELSE IF IsBase64Char(Head(s)) THEN <<SextetOf(Head(s))>> \o Base64Sextets(Tail(s))
    ELSE Base64Sextets(Tail(s))

RECURSIVE SextetsToBytes(_)
SextetsToBytes(x) ==
    IF Len(x) < 2 THEN <<>>
    ELSE IF Len(x) = 2 THEN <<x[1] * 4 + (x[2] \div 16)>>
    ELSE IF Len(x) = 3
         THEN <<x[1] * 4 + (x[2] \div 16), (x[2] % 16) * 16 + (x[3] \div 4)>>
    ELSE <<x[1] * 4 + (x[2] \div 16), (x[2] % 16) * 16 + (x[3] \div 4),
           (x[3] % 4) * 64 + x[4]>> \o SextetsToBytes(SubSeq(x, 5, Len(x)))

\* Buffer.from(text, 'base64').toString('utf8')
Base64Decode(s) == Utf8ToString(SextetsToBytes(Base64Sextets(s)))

\* the encoding a client applies to "user:pass" (RFC 4648, with padding)
RECURSIVE BytesToBase64(_)
BytesToBase64(b) ==
    IF b = <<>> THEN <<>>
    ELSE IF Len(b) = 1
         THEN <<Base64Chars[(b[1] \div 4) + 1], Base64Chars[(b[1] % 4) * 16 + 1], "=", "=">>
    ELSE IF Len(b) = 2
         THEN <<Base64Chars[(b[1] \div 4) + 1],
                Base64Chars[(b[1] % 4) * 16 + (b[2] \div 16) + 1],
                Base64Chars[(b[2] % 16) * 4 + 1], "=">>
    ELSE <<Base64Chars[(b[1] \div 4) + 1],
           Base64Chars[(b[1] % 4) * 16 + (b[2] \div 16) + 1],
           Base64Chars[(b[2] % 16) * 4 + (b[3] \div 64) + 1],
           Base64Chars[(b[3] % 64) + 1]>> \o BytesToBase64(SubSeq(b, 4, Len(b)))

Base64Encode(s) == BytesToBase64(BytesOf(s))

ADMIN_USER == <<"a", "d", "m", "i", "n">>
ADMIN_PASS ==
    <<"c", "h", "a", "n", "g", "e", "-", "t", "h", "i", "s", "-",
      "p", "a", "s", "s", "w", "o", "r", "d">>

safeEqualLengthOnly(a, b) == Len(BytesOf(a)) = Len(BytesOf(b))

safeEqual(a, b) ==
    IF Len(BytesOf(a)) # Len(BytesOf(b)) THEN FALSE
    ELSE \A i \in 1..Len(a) : BytesOf(a)[i] = BytesOf(b)[i]

BasicPrefix == <<"B", "a", "s", "i", "c", " ">>

\* header is req.headers.authorization || '' ; the result is null (ok = FALSE)
\* or the pair {user, pass}
parseBasicAuth(header) ==
    IF ~StartsWith(header, BasicPrefix) THEN [ok |-> FALSE, user |-> <<>>, pass |-> <<>>]
    ELSE LET decoded == Base64Decode(SubSeq(header, 7, Len(header)))
             idx == IndexOf(decoded, ":")
         IN  IF idx = 0 THEN [ok |-> FALSE, user |-> <<>>, pass |-> <<>>]
             ELSE [ok |-> TRUE,
                   user |-> SubSeq(decoded, 1, idx - 1),
                   pass |-> SubSeq(decoded, idx + 1, Len(decoded))]

\* requireAdmin: TRUE when next() is called, FALSE when the 401 is sent
requireAdminUserOnly(header) ==
    LET creds == parseBasicAuth(header)
    IN  creds.ok /\ safeEqual(creds.user, ADMIN_USER)

requireAdminNoCreds(header) ==
    LET creds == parseBasicAuth(header)
    IN  ~creds.ok \/ (safeEqual(creds.user, ADMIN_USER) /\ safeEqual(creds.pass, ADMIN_PASS))

requireAdmin(header) ==
    LET creds == parseBasicAuth(header)
    IN  creds.ok /\ safeEqual(creds.user, ADMIN_USER) /\ safeEqual(creds.pass, ADMIN_PASS)

BasicHeader(user, pass) == BasicPrefix \o Base64Encode(user \o <<":">> \o pass)

\* the header the admin's browser sends
AdminHeader == BasicHeader(ADMIN_USER, ADMIN_PASS)

\* the Authorization headers requests carry: none, the admin's, a wrong
\* password, a wrong user
AuthHeaders ==
    { <<>>,
      BasicHeader(ADMIN_USER, ADMIN_PASS),
      BasicHeader(ADMIN_USER, <<"x">>),
      BasicHeader(<<"r", "o", "o", "t">>, ADMIN_PASS) }

\* Authorization headers, by what is wrong with them.
AdminCredentials == Base64Encode(ADMIN_USER \o <<":">> \o ADMIN_PASS)

MissingHeader == { <<>> }

WrongScheme ==
    { <<"B", "e", "a", "r", "e", "r", " ">> \o AdminCredentials,
      <<"b", "a", "s", "i", "c", " ">> \o AdminCredentials,
      <<"B", "a", "s", "i", "c">> \o AdminCredentials }

\* characters outside the alphabet only; a byte that is no UTF-8 text
UndecodableEncoding ==
    { BasicPrefix \o <<"!", "!", "!", "!">>,
      BasicPrefix \o <<"/", "w", "=", "=">> }

NoColon ==
    { BasicPrefix,
      BasicPrefix \o Base64Encode(ADMIN_USER),
      BasicPrefix \o Base64Encode(ADMIN_USER \o ADMIN_PASS) }

\* one character of the value replaced
MutationChars == {"x", ":"}
Substitutions(value) ==
    { [value EXCEPT ![i] = c] : i \in 1..Len(value), c \in MutationChars } \ {value}

\* one character of the value dropped or one added
LengthChanges(value) ==
    { SubSeq(value, 1, Len(value) - 1), Tail(value), value \o <<"x">>, <<"x">> \o value }

IdentityMismatch ==
    { BasicHeader(u, ADMIN_PASS) :
        u \in Substitutions(ADMIN_USER) \cup {<<"r", "o", "o", "t">>} }

SecretMismatch ==
    { BasicHeader(ADMIN_USER, p) : p \in Substitutions(ADMIN_PASS) \cup {<<"x">>} }

LengthMismatch ==
    { BasicHeader(u, ADMIN_PASS) : u \in LengthChanges(ADMIN_USER) }
    \cup { BasicHeader(ADMIN_USER, p) : p \in LengthChanges(ADMIN_PASS) }

BothMismatch ==
    { BasicHeader(<<"r", "o", "o", "t">>, <<"x">>),
      BasicHeader(ADMIN_PASS, ADMIN_USER) }

\* the admin's credentials as clients may send them: padded, unpadded, with
\* white space inside the encoding
AdminHeaders ==
    { BasicPrefix \o AdminCredentials,
      BasicPrefix \o SubSeq(AdminCredentials, 1, Len(AdminCredentials) - 1),
      BasicPrefix \o SubSeq(AdminCredentials, 1, 4) \o <<" ", "\n">>
                  \o SubSeq(AdminCredentials, 5, Len(AdminCredentials)) }

ProbeHeaders ==
    MissingHeader \cup WrongScheme \cup UndecodableEncoding \cup NoColon
    \cup IdentityMismatch \cup SecretMismatch \cup LengthMismatch \cup BothMismatch
    \cup AdminHeaders

\* the outcome of the requireAdmin middleware for each of these headers
AdminGate == [h \in AuthHeaders \cup ProbeHeaders |-> requireAdmin(h)]

(***************************************************************************)
(* Durable store: each file holds one JSON array, replaced as a whole.     *)
(***************************************************************************)
\* readOk = FALSE: the file cannot be read or parsed, the catch branch
readJsonArray(file, readOk) == IF readOk THEN file ELSE <<>>

\* the content of the file after writeJsonArray; writeOk = FALSE: writeFileSync throws
writeJsonArray(file, value, writeOk) == IF writeOk THEN value ELSE file

(***************************************************************************)
(* Submission rate limiter.                                                *)
(***************************************************************************)
RATE_LIMIT_WINDOW_MS == 10 * 60 * 1000
RATE_LIMIT_MAX_SUBMISSIONS == 5

\* forwarded.split(',')[0]
FirstEntry(s) == IF IndexOf(s, ",") = 0 THEN s ELSE SubSeq(s, 1, IndexOf(s, ",") - 1)

UnknownIp == <<"u", "n", "k", "n", "o", "w", "n">>

getClientIpConnection(req) ==
    IF IsString(req.remoteAddress) /\ req.remoteAddress.s # <<>>
    THEN req.remoteAddress.s
    ELSE UnknownIp

getClientIp(req) ==
    IF IsString(req.forwarded) /\ Trim(req.forwarded.s) # <<>>
    THEN Trim(FirstEntry(req.forwarded.s))
    ELSE IF IsString(req.remoteAddress) /\ req.remoteAddress.s # <<>>
         THEN req.remoteAddress.s
         ELSE UnknownIp

\* submissionHits.get(ip) || []
HitsOf(hits, ip) == IF ip \in DOMAIN hits THEN hits[ip] ELSE <<>>

\* submissionHits.set(ip, list)
SetHits(hits, ip, list) ==
    [k \in DOMAIN hits \cup {ip} |-> IF k = ip THEN list ELSE hits[k]]

RECURSIVE RecentHits(_, _)
RecentHits(list, t) ==
    IF list = <<>> THEN <<>>
    ELSE IF t - Head(list) <= RATE_LIMIT_WINDOW_MS
         THEN <<Head(list)>> \o RecentHits(Tail(list), t)
         ELSE RecentHits(Tail(list), t)

RetryAfterSec(recent, t) ==
    Max(1, CeilDiv(RATE_LIMIT_WINDOW_MS - (t - recent[1]), 1000))

enforceSubmissionRateLimitOffByOne(hits, ip, t) ==
    LET recent == RecentHits(HitsOf(hits, ip), t)
    IN  IF Len(recent) > RATE_LIMIT_MAX_SUBMISSIONS
        THEN [allowed |-> FALSE, retryAfterSec |-> RetryAfterSec(recent, t), hits |-> hits]
        ELSE [allowed |-> TRUE, retryAfterSec |-> 0,
              hits |-> SetHits(hits, ip, Append(recent, t))]

\* enforceSubmissionRateLimit: whether next() is called, the Retry-After
\* value otherwise, and the Map afterwards
enforceSubmissionRateLimit(hits, ip, t) ==
    LET recent == RecentHits(HitsOf(hits, ip), t)
    IN  IF Len(recent) >= RATE_LIMIT_MAX_SUBMISSIONS
        THEN [allowed |-> FALSE, retryAfterSec |-> RetryAfterSec(recent, t), hits |-> hits]
        ELSE [allowed |-> TRUE, retryAfterSec |-> 0,
              hits |-> SetHits(hits, ip, Append(recent, t))]

(***************************************************************************)
(* Signal validator.                                                       *)
(***************************************************************************)
\* the strings new Date(s) parses to a valid instant
ParseableDates == { <<"2", "0", "2", "4">> }

DateIsNaN(s) == s \notin ParseableDates

validateIncomingSignalNoTrim(payload) ==
    IF ~payload.obj THEN [ok |-> FALSE, message |-> "Invalid payload"]
    ELSE LET title == IF IsString(payload.title) THEN payload.title.s ELSE <<>>
             startTime == IF IsString(payload.startTime) THEN payload.startTime.s ELSE <<>>
         IN  IF title = <<>> THEN [ok |-> FALSE, message |-> "Missing title"]
             ELSE IF startTime = <<>> \/ DateIsNaN(Trim(startTime))
                  THEN [ok |-> FALSE, message |-> "Missing or invalid startTime"]
             ELSE [ok |-> TRUE, message |-> ""]

validateIncomingSignal(payload) ==
    IF ~payload.obj THEN [ok |-> FALSE, message |-> "Invalid payload"]
    ELSE LET title == IF IsString(payload.title) THEN Trim(payload.title.s) ELSE <<>>
             startTime == IF IsString(payload.startTime) THEN Trim(payload.startTime.s) ELSE <<>>
         IN  IF title = <<>> THEN [ok |-> FALSE, message |-> "Missing title"]
             ELSE IF startTime = <<>> \/ DateIsNaN(startTime)
                  THEN [ok |-> FALSE, message |-> "Missing or invalid startTime"]
             ELSE [ok |-> TRUE, message |-> ""]

(***************************************************************************)
(* Moderation: record construction and lookup.                             *)
(***************************************************************************)
\* new Date().toISOString(): the instant, rendered as text
TimeString(t) == Str(DecimalString(t))

\* `sig-${Date.now()}-${Math.random().toString(16).slice(2, 8)}`
MintId(t, rnd) == <<"s", "i", "g", "-">> \o DecimalString(t) \o <<"-">> \o rnd

\* { ...incoming, id, status: 'pending', submittedAt }
NewSignalKeepStatus(incoming, t, rnd, serial) ==
    [id |-> IF IsString(incoming.id) /\ incoming.id.s # <<>>
            THEN incoming.id.s ELSE MintId(t, rnd),
     title |-> incoming.title,
     startTime |-> incoming.startTime,
     status |-> IF incoming.status = Undef
                THEN Str(<<"p", "e", "n", "d", "i", "n", "g">>) ELSE incoming.status,
     submittedAt |-> TimeString(t),
     approvedAt |-> incoming.approvedAt,
     serial |-> serial]

NewSignal(incoming, t, rnd, serial) ==
    [id |-> IF IsString(incoming.id) /\ incoming.id.s # <<>>
            THEN incoming.id.s ELSE MintId(t, rnd),
     title |-> incoming.title,
     startTime |-> incoming.startTime,
     status |-> Str(<<"p", "e", "n", "d", "i", "n", "g">>),
     submittedAt |-> TimeString(t),
     approvedAt |-> incoming.approvedAt,
     serial |-> serial]

\* { ...signal, status: 'approved', approvedAt }
ApprovedSignal(signal, t) ==
    [signal EXCEPT !.status = Str(<<"a", "p", "p", "r", "o", "v", "e", "d">>),
                   !.approvedAt = TimeString(t)]

\* pending.findIndex((sig) => sig && sig.id === id), 1-based; 0 for -1
findIndexPositional(list, id) == IF list = <<>> THEN 0 ELSE 1

findIndex(list, id) ==
    IF \E i \in 1..Len(list) : list[i].id = id
    THEN CHOOSE i \in 1..Len(list) : list[i].id = id /\ \A j \in 1..(i - 1) : list[j].id # id
    ELSE 0

\* the array after splice(index, 1)
SpliceFrom(list, index) == SubSeq(list, 1, index - 1)

Splice(list, index) == SubSeq(list, 1, index - 1) \o SubSeq(list, index + 1, Len(list))

\* const { id } = req.body || {}; !id || typeof id !== 'string'
MissingId(id) == ~IsString(id) \/ id.s = <<>>

(***************************************************************************)
(* Requests the clients send.                                              *)
(***************************************************************************)
\* the addressing part of a request: x-forwarded-for and socket.remoteAddress
DirectReq == [forwarded |-> Undef, remoteAddress |-> Str(<<"9">>)]
ProxiedReq == [forwarded |-> Str(<<" ", "7", ",", "9">>), remoteAddress |-> Str(<<"9">>)]

ClientIds == { <<"a">> }

GoodTitle == Str(<<"P">>)
GoodStart == Str(<<"2", "0", "2", "4", " ">>)

Payload(title, startTime, id, extra) ==
    [obj |-> TRUE, title |-> title, startTime |-> startTime, id |-> id,
     status |-> extra, approvedAt |-> extra]

ClaimsApproved == Str(<<"a", "p", "p", "r", "o", "v", "e", "d">>)

\* valid submission bodies: without an id, with an id that is not a
\* non-empty string, with a string id, and carrying a status and an
\* approvedAt field of their own
ValidPayloads ==
    { Payload(GoodTitle, GoodStart, Num, Undef),
      Payload(GoodTitle, GoodStart, Str(<<>>), ClaimsApproved) }
    \cup { Payload(GoodTitle, GoodStart, Str(c), Undef) : c \in ClientIds }

\* invalid submission bodies: not an object, blank title, unparsable startTime
InvalidPayloads ==
    { [obj |-> FALSE, title |-> Undef, startTime |-> Undef, id |-> Undef,
       status |-> Undef, approvedAt |-> Undef],
      Payload(Str(<<" ">>), GoodStart, Undef, Undef),
      Payload(GoodTitle, Str(<<"x">>), Undef, Undef) }

Payloads == ValidPayloads \cup InvalidPayloads

\* the outcomes of Math.random().toString(16).slice(2, 8)
RandomHex == { <<"0", "a">>, <<"f", "f">> }

\* Math.random() is called only when the id is minted
RandomDraws(incoming) ==
    IF IsString(incoming.id) /\ incoming.id.s # <<>> THEN { <<>> } ELSE RandomHex

IdsOf(list) == { list[i].id : i \in 1..Len(list) }

\* the id field of an approve / reject body: absent, not a string, empty,
\* or an id the admin has seen or typed
BodyIds ==
    {Undef, Num, Str(<<>>)}
    \cup { Str(i) : i \in ClientIds \cup IdsOf(pendingFile) \cup IdsOf(approvedFile)
                          \cup rejectedIds \cup {<<"z">>} }

NoId == <<>>

Response(op, status, id, message) ==
    [op |-> op, status |-> status, id |-> id, message |-> message,
     retryAfterSec |-> 0, challenge |-> FALSE, body |-> <<>>]

\* res.setHeader('WWW-Authenticate', ...); res.status(401).send(...)
Unauthorized(op) ==
    [Response(op, 401, NoId, "Admin authentication required") EXCEPT !.challenge = TRUE]

(***************************************************************************)
(* Initial state: no files, an empty Map.                                  *)
(***************************************************************************)
Init ==
    /\ pendingFile = <<>>
    /\ approvedFile = <<>>
    /\ submissionHits = <<>>
    /\ now = 0
    /\ resp = Response("none", 0, NoId, "")
    /\ nextSerial = 1
    /\ approveLog = {}
    /\ rejectedSerials = {}
    /\ rejectedIds = {}
    /\ allowedLog = <<>>
    /\ writeFaults = 0
    /\ calls = {}
    /\ answers = <<>>

(***************************************************************************)
(* The clock.                                                              *)
(***************************************************************************)
Tick(d, cap) ==
    /\ now + d <= cap
    /\ now' = now + d
    /\ UNCHANGED <<pendingFile, approvedFile, submissionHits, resp, nextSerial,
                   approveLog, rejectedSerials, rejectedIds, allowedLog, writeFaults>>

\* the client waits exactly as long as the last 429 told it to
TickRetryAfter(cap) ==
    /\ resp.status = 429
    /\ Tick(resp.retryAfterSec * 1000, cap)

(***************************************************************************)
(* GET /api/signals                                                        *)
(***************************************************************************)
GetSignals(approvedReadOk) ==
    /\ resp' = [Response("getSignals", 200, NoId, "") EXCEPT
                  !.body = readJsonArray(approvedFile, approvedReadOk)]
    /\ UNCHANGED <<pendingFile, approvedFile, submissionHits, now, nextSerial,
                   approveLog, rejectedSerials, rejectedIds, allowedLog, writeFaults>>

(***************************************************************************)
(* POST /api/signals                                                       *)
(***************************************************************************)
PostSignals(req, incoming, rnd, pendingReadOk, pendingWriteOk) ==
    LET ip == getClientIp(req)
        limit == enforceSubmissionRateLimit(submissionHits, ip, now)
        validation == validateIncomingSignal(incoming)
        pending == readJsonArray(pendingFile, pendingReadOk)
        newSignal == NewSignal(incoming, now, rnd, nextSerial)
        saved == pendingWriteOk
    IN  /\ submissionHits' = limit.hits
        /\ allowedLog' = IF limit.allowed
                         THEN SetHits(allowedLog, ip, Append(HitsOf(allowedLog, ip), now))
                         ELSE allowedLog
        /\ IF ~limit.allowed
           THEN /\ resp' = [Response("postSignals", 429, NoId, "Too many submissions")
                              EXCEPT !.retryAfterSec = limit.retryAfterSec]
                /\ UNCHANGED <<pendingFile, nextSerial, writeFaults>>
           ELSE IF ~validation.ok
           THEN /\ resp' = Response("postSignals", 400, NoId, validation.message)
                /\ UNCHANGED <<pendingFile, nextSerial, writeFaults>>
           ELSE /\ pendingFile' = writeJsonArray(pendingFile, Append(pending, newSignal),
                                                 pendingWriteOk)
                /\ writeFaults' = IF pendingWriteOk THEN writeFaults ELSE writeFaults + 1
                /\ IF ~saved
                   THEN /\ resp' = Response("postSignals", 500, NoId,
                                            "Could not save pending signal")
                        /\ UNCHANGED nextSerial
                   ELSE /\ resp' = Response("postSignals", 201, newSignal.id,
                                            "Signal submitted for review!")
                        /\ nextSerial' = nextSerial + 1
        /\ UNCHANGED <<approvedFile, now, approveLog, rejectedSerials, rejectedIds>>

(***************************************************************************)
(* GET /admin and GET /admin/pending                                       *)
(***************************************************************************)
\* what each handler answers and leaves in the files, as a function of the
\* request and of the files it finds; writes counts the writeJsonArray calls
AdminPageOutcome(header, pending, approved) ==
    IF ~AdminGate[header]
    THEN [resp |-> Unauthorized("adminPage"), writes |-> 0]
    ELSE [resp |-> [Response("adminPage", 200, NoId, "") EXCEPT !.body = pending],
          writes |-> 0]

AdminPendingOutcome(header, pending) ==
    IF ~AdminGate[header]
    THEN [resp |-> Unauthorized("adminPending"), writes |-> 0]
    ELSE [resp |-> [Response("adminPending", 200, NoId, "") EXCEPT !.body = pending],
          writes |-> 0]

AdminPage(header, pendingReadOk, approvedReadOk) ==
    /\ resp' = AdminPageOutcome(header, readJsonArray(pendingFile, pendingReadOk),
                                readJsonArray(approvedFile, approvedReadOk)).resp
    /\ UNCHANGED <<pendingFile, approvedFile, submissionHits, now, nextSerial,
                   approveLog, rejectedSerials, rejectedIds, allowedLog, writeFaults>>

AdminPending(header, pendingReadOk) ==
    /\ resp' = AdminPendingOutcome(header, readJsonArray(pendingFile, pendingReadOk)).resp
    /\ UNCHANGED <<pendingFile, approvedFile, submissionHits, now, nextSerial,
                   approveLog, rejectedSerials, rejectedIds, allowedLog, writeFaults>>

(***************************************************************************)
(* POST /admin/approve                                                     *)
(***************************************************************************)
AdminApproveOutcomeUnshift(header, id, pendingReadOk, approvedReadOk, approvedWriteOk, pendingWriteOk) ==
    LET pending == readJsonArray(pendingFile, pendingReadOk)
        approved == readJsonArray(approvedFile, approvedReadOk)
        index == findIndex(pending, id.s)
        signal == pending[index]
        approvedSaved == approvedWriteOk
        pendingSaved == pendingWriteOk
        unchanged == [pendingFile |-> pendingFile, approvedFile |-> approvedFile,
                      writes |-> 0, removed |-> 0]
    IN  IF ~AdminGate[header]
        THEN [resp |-> Unauthorized("adminApprove")] @@ unchanged
        ELSE IF MissingId(id)
        THEN [resp |-> Response("adminApprove", 400, NoId, "Missing id")] @@ unchanged
        ELSE IF index = 0
        THEN [resp |-> Response("adminApprove", 404, NoId, "Pending signal not found")]
             @@ unchanged
        ELSE [resp |-> IF ~approvedSaved \/ ~pendingSaved
                       THEN Response("adminApprove", 500, NoId,
                                     "Failed to save approval update")
                       ELSE Response("adminApprove", 200, NoId, ""),
              approvedFile |-> writeJsonArray(approvedFile,
                                   <<ApprovedSignal(signal, now)>> \o approved,
                                   approvedWriteOk),
              pendingFile |-> writeJsonArray(pendingFile, Splice(pending, index),
                                             pendingWriteOk),
              writes |-> 2,
              removed |-> signal.serial]

AdminApproveOutcome(header, id, pendingReadOk, approvedReadOk, approvedWriteOk, pendingWriteOk) ==
    LET pending == readJsonArray(pendingFile, pendingReadOk)
        approved == readJsonArray(approvedFile, approvedReadOk)
        index == findIndex(pending, id.s)
        signal == pending[index]
        approvedSaved == approvedWriteOk
        pendingSaved == pendingWriteOk
        unchanged == [pendingFile |-> pendingFile, approvedFile |-> approvedFile,
                      writes |-> 0, removed |-> 0]
    IN  IF ~AdminGate[header]
        THEN [resp |-> Unauthorized("adminApprove")] @@ unchanged
        ELSE IF MissingId(id)
        THEN [resp |-> Response("adminApprove", 400, NoId, "Missing id")] @@ unchanged
        ELSE IF index = 0
        THEN [resp |-> Response("adminApprove", 404, NoId, "Pending signal not found")]
             @@ unchanged
        ELSE [resp |-> IF ~approvedSaved \/ ~pendingSaved
                       THEN Response("adminApprove", 500, NoId,
                                     "Failed to save approval update")
                       ELSE Response("adminApprove", 200, NoId, ""),
              approvedFile |-> writeJsonArray(approvedFile,
                                   Append(approved, ApprovedSignal(signal, now)),
                                   approvedWriteOk),
              pendingFile |-> writeJsonArray(pendingFile, Splice(pending, index),
                                             pendingWriteOk),
              writes |-> 2,
              removed |-> signal.serial]

AdminApprove(header, id, pendingReadOk, approvedReadOk, approvedWriteOk, pendingWriteOk) ==
    LET out == AdminApproveOutcome(header, id, pendingReadOk, approvedReadOk,
                                   approvedWriteOk, pendingWriteOk)
    IN  /\ resp' = out.resp
        /\ approvedFile' = out.approvedFile
        /\ pendingFile' = out.pendingFile
        /\ writeFaults' = IF out.writes > 0 /\ ~(approvedWriteOk /\ pendingWriteOk)
                          THEN writeFaults + 1 ELSE writeFaults
        /\ approveLog' = IF out.resp.status = 200 THEN approveLog \cup {id.s} ELSE approveLog
        /\ UNCHANGED <<submissionHits, now, nextSerial, rejectedSerials, rejectedIds,
                       allowedLog>>

(***************************************************************************)
(* POST /admin/reject                                                      *)
(***************************************************************************)
AdminRejectOutcomeUnchecked(header, id, pendingReadOk, pendingWriteOk) ==
    LET pending == readJsonArray(pendingFile, pendingReadOk)
        index == findIndex(pending, id.s)
        unchanged == [pendingFile |-> pendingFile, writes |-> 0, removed |-> 0]
    IN  IF ~AdminGate[header]
        THEN [resp |-> Unauthorized("adminReject")] @@ unchanged
        ELSE IF MissingId(id)
        THEN [resp |-> Response("adminReject", 400, NoId, "Missing id")] @@ unchanged
        ELSE IF index = 0
        THEN [resp |-> Response("adminReject", 404, NoId, "Pending signal not found")]
             @@ unchanged
        ELSE [resp |-> Response("adminReject", 200, NoId, ""),
              pendingFile |-> writeJsonArray(pendingFile, Splice(pending, index),
                                             pendingWriteOk),
              writes |-> 1,
              removed |-> pending[index].serial]

AdminRejectOutcome(header, id, pendingReadOk, pendingWriteOk) ==
    LET pending == readJsonArray(pendingFile, pendingReadOk)
        index == findIndex(pending, id.s)
        pendingSaved == pendingWriteOk
        unchanged == [pendingFile |-> pendingFile, writes |-> 0, removed |-> 0]
    IN  IF ~AdminGate[header]
        THEN [resp |-> Unauthorized("adminReject")] @@ unchanged
        ELSE IF MissingId(id)
        THEN [resp |-> Response("adminReject", 400, NoId, "Missing id")] @@ unchanged
        ELSE IF index = 0
        THEN [resp |-> Response("adminReject", 404, NoId, "Pending signal not found")]
             @@ unchanged
        ELSE [resp |-> IF ~pendingSaved
                       THEN Response("adminReject", 500, NoId,
                                     "Failed to save rejection update")
                       ELSE Response("adminReject", 200, NoId, ""),
              pendingFile |-> writeJsonArray(pendingFile, Splice(pending, index),
                                             pendingWriteOk),
              writes |-> 1,
              removed |-> pending[index].serial]

AdminReject(header, id, pendingReadOk, pendingWriteOk) ==
    LET out == AdminRejectOutcome(header, id, pendingReadOk, pendingWriteOk)
    IN  /\ resp' = out.resp
        /\ pendingFile' = out.pendingFile
        /\ writeFaults' = IF out.writes > 0 /\ ~pendingWriteOk
                          THEN writeFaults + 1 ELSE writeFaults
        /\ rejectedSerials' = IF out.resp.status = 200
                              THEN rejectedSerials \cup {out.removed}
                              ELSE rejectedSerials
        /\ rejectedIds' = IF out.resp.status = 200 THEN rejectedIds \cup {id.s}
                          ELSE rejectedIds
        /\ UNCHANGED <<approvedFile, submissionHits, now, nextSerial, approveLog, allowedLog>>

(***************************************************************************)
(* The server with a reliable read side: writes may fail, reads of an      *)
(* intact file succeed.                                                    *)
(***************************************************************************)
TickSteps == {1000}

\* the outcomes a file write can have while the fault budget lasts
WriteOutcomes == IF writeFaults < MaxWriteFaults THEN BOOLEAN ELSE {TRUE}

NextGetSignals == GetSignals(TRUE) /\ UNCHANGED logVars

\* the submissions sent so far that the limiter let pass
Submitted(req) == Len(HitsOf(allowedLog, getClientIp(req)))

NextPostSignals ==
    \E incoming \in Payloads, w \in WriteOutcomes :
        \E rnd \in RandomDraws(incoming) :
            /\ Submitted(DirectReq) < MaxSubmits
            /\ PostSignals(DirectReq, incoming, rnd, TRUE, w)
            /\ UNCHANGED logVars

NextAdminPage == \E h \in AuthHeaders : AdminPage(h, TRUE, TRUE) /\ UNCHANGED logVars

NextAdminPending == \E h \in AuthHeaders : AdminPending(h, TRUE) /\ UNCHANGED logVars

NextAdminApprove ==
    \E h \in AuthHeaders, id \in BodyIds, wa \in WriteOutcomes, wp \in WriteOutcomes :
        AdminApprove(h, id, TRUE, TRUE, wa, wp) /\ UNCHANGED logVars

NextAdminReject ==
    \E h \in AuthHeaders, id \in BodyIds, wp \in WriteOutcomes :
        AdminReject(h, id, TRUE, wp) /\ UNCHANGED logVars

NextTick == \E d \in TickSteps : Tick(d, MaxNow) /\ UNCHANGED logVars

Next ==
    \/ NextTick
    \/ NextGetSignals
    \/ NextPostSignals
    \/ NextAdminPage
    \/ NextAdminPending
    \/ NextAdminApprove
    \/ NextAdminReject

Spec == Init /\ [][Next]_vars

(***************************************************************************)
(* The same server when every submission carries an id of the client's     *)
(* own choosing, so that no id is minted.                                  *)
(***************************************************************************)
ClientPayloads == { p \in ValidPayloads : IsString(p.id) /\ p.id.s # <<>> }

NextClientPostSignals ==
    \E incoming \in ClientPayloads, w \in WriteOutcomes :
        /\ Submitted(DirectReq) < MaxSubmits
        /\ PostSignals(DirectReq, incoming, <<>>, TRUE, w)
        /\ UNCHANGED logVars

NextClient ==
    \/ NextTick
    \/ NextGetSignals
    \/ NextClientPostSignals
    \/ NextAdminPage
    \/ NextAdminPending
    \/ NextAdminApprove
    \/ NextAdminReject

SpecClient == Init /\ [][NextClient]_vars

(***************************************************************************)
(* The submission endpoint over a long stretch of time: two client         *)
(* identities, the clock moving to instants around the window's edges or   *)
(* by the advertised Retry-After.                                          *)
(***************************************************************************)
LimiterInstants == {1000, 600001}

LimiterPayloads ==
    { Payload(GoodTitle, GoodStart, Num, Undef),
      Payload(Str(<<" ">>), GoodStart, Undef, Undef) }

NextLimiterTick ==
    \E t \in LimiterInstants : t > now /\ Tick(t - now, MaxLimiterNow) /\ UNCHANGED logVars

NextLimiterRetry == TickRetryAfter(MaxLimiterNow) /\ UNCHANGED logVars

NextLimiterDirect ==
    \E incoming \in LimiterPayloads :
        /\ validateIncomingSignal(incoming).ok => nextSerial <= MaxLimiterRecords
        /\ PostSignals(DirectReq, incoming, <<"0", "a">>, TRUE, TRUE)
        /\ UNCHANGED logVars

NextLimiterProxied ==
    \E incoming \in LimiterPayloads :
        /\ validateIncomingSignal(incoming).ok => nextSerial <= MaxLimiterRecords
        /\ Submitted(ProxiedReq) < MaxProxied
        /\ PostSignals(ProxiedReq, incoming, <<"f", "f">>, TRUE, TRUE)
        /\ UNCHANGED logVars

NextLimiter ==
    \/ NextLimiterTick
    \/ NextLimiterRetry
    \/ NextLimiterDirect
    \/ NextLimiterProxied

SpecLimiter == Init /\ [][NextLimiter]_vars

(***************************************************************************)
(* The log of answered requests.                                           *)
(***************************************************************************)
\* one answered request: the route, its Authorization header, the id of its
\* body, the status answered; serial is the record it created, moved or
\* removed, faulted whether a write failed while it was handled
Answer(route, authorization, id, status) ==
    [route |-> route, authorization |-> authorization, id |-> id, status |-> status,
     serial |-> 0, faulted |-> FALSE, rid |-> 0, overlap |-> {}]

\* the log after one more answer, cut to its last keep entries
Logged(log, entry, keep) ==
    LET all == Append(log, entry)
    IN  IF Len(all) <= keep THEN all ELSE SubSeq(all, Len(all) - keep + 1, Len(all))

(***************************************************************************)
(* The admin routes under every kind of Authorization header: one          *)
(* submission is pending, then requests with good and bad credentials.     *)
(***************************************************************************)
MaxAuthSubmits == 1

AuthBodyIds == {Undef} \cup { Str(i) : i \in IdsOf(pendingFile) \cup {<<"z">>} }

NextAuthPostSignals ==
    /\ Submitted(DirectReq) < MaxAuthSubmits
    /\ PostSignals(DirectReq, Payload(GoodTitle, GoodStart, Num, Undef), <<"0", "a">>,
                   TRUE, TRUE)
    /\ UNCHANGED logVars

NextAuthPage ==
    \E h \in ProbeHeaders :
        /\ AdminPage(h, TRUE, TRUE)
        /\ answers' = <<Answer("adminPage", h, Undef, resp'.status)>>
        /\ UNCHANGED calls

NextAuthPending ==
    \E h \in ProbeHeaders :
        /\ AdminPending(h, TRUE)
        /\ answers' = <<Answer("adminPending", h, Undef, resp'.status)>>
        /\ UNCHANGED calls

NextAuthApprove ==
    \E h \in ProbeHeaders, id \in AuthBodyIds :
        /\ AdminApprove(h, id, TRUE, TRUE, TRUE, TRUE)
        /\ answers' = <<Answer("adminApprove", h, id, resp'.status)>>
        /\ UNCHANGED calls

NextAuthReject ==
    \E h \in ProbeHeaders, id \in AuthBodyIds :
        /\ AdminReject(h, id, TRUE, TRUE)
        /\ answers' = <<Answer("adminReject", h, id, resp'.status)>>
        /\ UNCHANGED calls

NextAuth ==
    \/ NextAuthPostSignals
    \/ NextAuthPage
    \/ NextAuthPending
    \/ NextAuthApprove
    \/ NextAuthReject

SpecAuth == Init /\ [][NextAuth]_vars

(***************************************************************************)
(* The moderation desk: submissions whose ids differ from every id used    *)
(* before, and an authenticated admin approving and rejecting, also by ids *)
(* of records that are no longer pending; a write may fail.  The last      *)
(* requests are logged.                                                    *)
(***************************************************************************)
MaxDeskSubmits == 2
MaxLog == 2

\* the ids of the records stored or moderated so far
UsedIds == IdsOf(pendingFile) \cup IdsOf(approvedFile) \cup rejectedIds \cup approveLog

\* the ids an admin sends: from a listing, current or stale, or mistyped
DeskIds == { Str(i) : i \in UsedIds \cup {<<"z">>} }

DeskPayloads ==
    { Payload(GoodTitle, GoodStart, Num, Undef),
      Payload(GoodTitle, GoodStart, Str(<<"a">>), Undef) }

NextDeskSubmit ==
    \E incoming \in DeskPayloads, w \in WriteOutcomes :
        \E rnd \in RandomDraws(incoming) :
            /\ Submitted(DirectReq) < MaxDeskSubmits
            /\ NewSignal(incoming, now, rnd, nextSerial).id \notin UsedIds
            /\ PostSignals(DirectReq, incoming, rnd, TRUE, w)
            /\ answers' = Logged(answers,
                              [Answer("postSignals", <<>>, Str(resp'.id), resp'.status) EXCEPT
                                 !.serial = IF resp'.status = 201 THEN nextSerial ELSE 0,
                                 !.faulted = writeFaults' # writeFaults],
                              MaxLog)
            /\ UNCHANGED calls

NextDeskApprove ==
    \E id \in DeskIds, wa \in WriteOutcomes, wp \in WriteOutcomes :
        LET h == AdminHeader
        IN  /\ AdminApprove(h, id, TRUE, TRUE, wa, wp)
            /\ answers' = Logged(answers,
                              [Answer("adminApprove", h, id, resp'.status) EXCEPT
                                 !.serial = AdminApproveOutcome(h, id, TRUE, TRUE, wa, wp).removed,
                                 !.faulted = writeFaults' # writeFaults],
                              MaxLog)
            /\ UNCHANGED calls

NextDeskReject ==
    \E id \in DeskIds, wp \in WriteOutcomes :
        LET h == AdminHeader
        IN  /\ AdminReject(h, id, TRUE, wp)
            /\ answers' = Logged(answers,
                              [Answer("adminReject", h, id, resp'.status) EXCEPT
                                 !.serial = AdminRejectOutcome(h, id, TRUE, wp).removed,
                                 !.faulted = writeFaults' # writeFaults],
                              MaxLog)
            /\ UNCHANGED calls

NextDesk ==
    \/ NextDeskSubmit
    \/ NextDeskApprove
    \/ NextDeskReject

SpecDesk == Init /\ [][NextDesk]_vars

(***************************************************************************)
(* The submission route under payloads of every shape.                     *)
(***************************************************************************)
MaxProbeSubmits == 2

ProbeTitles ==
    { Undef, Num, Str(<<>>), Str(<<" ">>), Str(<<" ", "P", " ">>), GoodTitle }

ProbeStartTimes ==
    { Undef, Num, Str(<<>>), Str(<<" ">>), Str(<<"x">>), Str(<<"2", "0", "2", "4", "x">>),
      Str(<<" ", "2", "0", "2", "4">>), GoodStart }

\* req.body: not an object, or an object with or without title and
\* startTime, bare or with an id, a status and an approvedAt of its own
ValidatorPayloads ==
    { [obj |-> FALSE, title |-> Undef, startTime |-> Undef, id |-> Undef,
       status |-> Undef, approvedAt |-> Undef] }
    \cup { Payload(title, startTime, Undef, Undef) :
             title \in ProbeTitles, startTime \in ProbeStartTimes }
    \cup { Payload(title, startTime, Str(<<"a">>), ClaimsApproved) :
             title \in ProbeTitles, startTime \in ProbeStartTimes }

NextProbeSubmit ==
    \E incoming \in ValidatorPayloads :
        \E rnd \in RandomDraws(incoming) :
            /\ Submitted(DirectReq) < MaxProbeSubmits
            /\ PostSignals(DirectReq, incoming, rnd, TRUE, TRUE)
            /\ UNCHANGED logVars

NextProbeGetSignals == GetSignals(TRUE) /\ UNCHANGED logVars

NextProbe ==
    \/ NextProbeSubmit
    \/ NextProbeGetSignals

SpecSubmit == Init /\ [][NextProbe]_vars

(***************************************************************************)
(* Concurrent requests.  The server holds the requests it has received;    *)
(* a handler is the callback of one of them.  Between its read of a file   *)
(* (readFileSync) and its write (writeFileSync) a handler never returns to *)
(* the event loop, so no other handler starts before it has answered.      *)
(***************************************************************************)
MaxCalls == 3

MutatingRoutes == {"postSignals", "adminApprove", "adminReject"}

NoPayload == Payload(Undef, Undef, Undef, Undef)

\* a request in flight: received, or running (its handler has read the files
\* into the locals pending and approved and has not written yet); overlap is
\* the set of requests that were in flight together with it
Call(rid, route, payload, id, overlap) ==
    [rid |-> rid, route |-> route, payload |-> payload, id |-> id, phase |-> "received",
     pending |-> <<>>, approved |-> <<>>, overlap |-> overlap]

\* the server received a request while others may be in flight
Receive(route, payload, id) ==
    LET rid == Cardinality(calls) + Len(answers) + 1
    IN  /\ rid <= MaxCalls
        /\ calls' = { [c EXCEPT !.overlap = @ \cup {rid}] : c \in calls }
                     \cup { Call(rid, route, payload, id, { c.rid : c \in calls }) }
        /\ UNCHANGED <<pendingFile, approvedFile, submissionHits, now, resp, nextSerial,
                       approveLog, rejectedSerials, rejectedIds, allowedLog, writeFaults,
                       answers>>

\* whether the event loop may start a handler: no handler that has read is
\* still to write
HandlersInterleave == TRUE

RunsToCompletion == \A c \in calls : c.phase # "running"

\* the answer to call c
Answered(c, status, serial) ==
    Append(answers, [Answer(c.route, <<>>, c.id, status) EXCEPT
                       !.serial = serial, !.rid = c.rid, !.overlap = c.overlap])

\* the handler of c starts: the middleware, the checks of the body and the
\* reads; it answers at once when it has nothing to write
BeginHandler(c) ==
    LET limit == enforceSubmissionRateLimit(submissionHits, getClientIp(DirectReq), now)
        validation == validateIncomingSignal(c.payload)
        pending == readJsonArray(pendingFile, TRUE)
        approved == readJsonArray(approvedFile, TRUE)
        early(status, message) ==
            /\ resp' = Response(c.route, status, NoId, message)
            /\ answers' = Answered(c, status, 0)
            /\ calls' = calls \ {c}
        run == /\ calls' = (calls \ {c})
                             \cup {[c EXCEPT !.phase = "running", !.pending = pending,
                                              !.approved = approved]}
               /\ UNCHANGED <<resp, answers>>
    IN  /\ c.phase = "received"
        /\ RunsToCompletion
        /\ IF c.route = "postSignals"
           THEN /\ submissionHits' = limit.hits
                /\ allowedLog' = IF limit.allowed
                                 THEN SetHits(allowedLog, getClientIp(DirectReq),
                                        Append(HitsOf(allowedLog, getClientIp(DirectReq)), now))
                                 ELSE allowedLog
                /\ IF ~limit.allowed THEN early(429, "Too many submissions")
                   ELSE IF ~validation.ok THEN early(400, validation.message)
                   ELSE run
           ELSE /\ UNCHANGED <<submissionHits, allowedLog>>
                /\ IF ~AdminGate[AdminHeader]
                   THEN early(401, "Admin authentication required")
                   ELSE IF MissingId(c.id) THEN early(400, "Missing id")
                   ELSE IF findIndex(pending, c.id.s) = 0
                   THEN early(404, "Pending signal not found")
                   ELSE run
        /\ UNCHANGED <<pendingFile, approvedFile, now, nextSerial, approveLog,
                       rejectedSerials, rejectedIds, writeFaults>>

\* the handler of c goes on from what it has read: it changes its arrays,
\* writes them and answers
EndHandler(c, rnd) ==
    LET index == findIndex(c.pending, c.id.s)
        signal == c.pending[index]
        newSignal == NewSignal(c.payload, now, rnd, nextSerial)
    IN  /\ c.phase = "running"
        /\ calls' = calls \ {c}
        /\ IF c.route = "postSignals"
           THEN /\ pendingFile' = writeJsonArray(pendingFile, Append(c.pending, newSignal), TRUE)
                /\ resp' = Response(c.route, 201, newSignal.id, "Signal submitted for review!")
                /\ nextSerial' = nextSerial + 1
                /\ answers' = Answered(c, 201, nextSerial)
                /\ UNCHANGED <<approvedFile, approveLog, rejectedSerials, rejectedIds>>
           ELSE IF c.route = "adminApprove"
           THEN /\ approvedFile' = writeJsonArray(approvedFile,
                                       Append(c.approved, ApprovedSignal(signal, now)), TRUE)
                /\ pendingFile' = writeJsonArray(pendingFile, Splice(c.pending, index), TRUE)
                /\ resp' = Response(c.route, 200, NoId, "")
                /\ approveLog' = approveLog \cup {c.id.s}
                /\ answers' = Answered(c, 200, signal.serial)
                /\ UNCHANGED <<nextSerial, rejectedSerials, rejectedIds>>
           ELSE /\ pendingFile' = writeJsonArray(pendingFile, Splice(c.pending, index), TRUE)
                /\ resp' = Response(c.route, 200, NoId, "")
                /\ rejectedSerials' = rejectedSerials \cup {signal.serial}
                /\ rejectedIds' = rejectedIds \cup {c.id.s}
                /\ answers' = Answered(c, 200, signal.serial)
                /\ UNCHANGED <<approvedFile, nextSerial, approveLog>>
        /\ UNCHANGED <<submissionHits, now, allowedLog, writeFaults>>

NextReceiveSubmit ==
    Receive("postSignals", Payload(GoodTitle, GoodStart, Num, Undef), Undef)

\* the admin acts on a record of the pending list
NextReceiveApprove == \E i \in IdsOf(pendingFile) : Receive("adminApprove", NoPayload, Str(i))

NextReceiveReject == \E i \in IdsOf(pendingFile) : Receive("adminReject", NoPayload, Str(i))

NextBeginHandler == \E c \in calls : BeginHandler(c)

NextEndHandler == \E c \in calls : \E rnd \in RandomDraws(c.payload) : EndHandler(c, rnd)

NextConcurrent ==
    \/ NextReceiveSubmit
    \/ NextReceiveApprove
    \/ NextReceiveReject
    \/ NextBeginHandler
    \/ NextEndHandler

SpecConcurrent == Init /\ [][NextConcurrent]_vars

(***************************************************************************)
(* Properties.                                                             *)
(***************************************************************************)
Pending == Str(<<"p", "e", "n", "d", "i", "n", "g">>)
Approved == Str(<<"a", "p", "p", "r", "o", "v", "e", "d">>)

\* how many entries of a collection stem from the submission with this serial
Copies(list, serial) == Cardinality({ i \in 1..Len(list) : list[i].serial = serial })

AllRecords == pendingFile \o approvedFile

\* C1: every record the public read returns has an id that an earlier
\* authenticated approve request, answered with success, named; a submission
\* never puts a record into approved by itself.
C1_PublishedOnlyAfterSuccessfulApprove ==
    /\ \A i \in 1..Len(approvedFile) : approvedFile[i].id \in approveLog
    /\ resp.op = "getSignals" =>
         \A i \in 1..Len(resp.body) : resp.body[i].id \in approveLog

\* C2: every record created by a submission and not rejected is stored in
\* exactly one of pending and approved, also after an approve one of whose
\* two writes failed.
C2_ExactlyOneCollection ==
    \A serial \in 1..(nextSerial - 1) :
        serial \notin rejectedSerials =>
            Copies(pendingFile, serial) + Copies(approvedFile, serial) = 1

\* C3: no two records of different submissions in the union of pending and
\* approved carry the same id.
C3_IdsUnique ==
    \A i, j \in 1..Len(AllRecords) :
        AllRecords[i].serial # AllRecords[j].serial => AllRecords[i].id # AllRecords[j].id

\* C4: right after a submission answered 201, the returned id is the id of
\* a record in pending with status pending and of no record in approved.
C4_SubmittedIdPendingOnly ==
    (resp.op = "postSignals" /\ resp.status = 201) =>
        /\ \E i \in 1..Len(pendingFile) :
              pendingFile[i].id = resp.id /\ pendingFile[i].status = Pending
        /\ resp.id \notin IdsOf(approvedFile)

\* C5: after an approve of an id present in pending that returns success, no
\* record with that id remains in pending, a record with that id is in
\* approved with status approved and approvedAt set, and the number of
\* records across both collections is what it was.
C5_ApproveMovesRecord ==
    [][ \A h \in AuthHeaders, id \in BodyIds, wa \in BOOLEAN, wp \in BOOLEAN :
          (AdminApprove(h, id, TRUE, TRUE, wa, wp) /\ resp'.status = 200) =>
              /\ id.s \notin IdsOf(pendingFile')
              /\ \E i \in 1..Len(approvedFile') :
                    /\ approvedFile'[i].id = id.s
                    /\ approvedFile'[i].status = Approved
                    /\ IsString(approvedFile'[i].approvedAt)
              /\ Len(pendingFile') + Len(approvedFile')
                   = Len(pendingFile) + Len(approvedFile) ]_vars

\* C6: after a reject of an id present in pending that returns success, no
\* record with that id remains in pending, and no record with that id is in
\* approved in any later state.
C6_RejectedNeverPublished ==
    [][ /\ \A h \in AuthHeaders, id \in BodyIds, wp \in BOOLEAN :
              (AdminReject(h, id, TRUE, wp) /\ resp'.status = 200) =>
                  id.s \notin IdsOf(pendingFile')
        /\ \A id \in rejectedIds' : id \notin IdsOf(approvedFile') ]_vars

\* C7: an authenticated approve or reject whose id matches no record in
\* pending answers 404, changes neither collection and performs no write.
C7_NotFoundChangesNothing ==
    \A id \in BodyIds, wa \in BOOLEAN, wp \in BOOLEAN :
        (~MissingId(id) /\ id.s \notin IdsOf(pendingFile)) =>
            LET approve == AdminApproveOutcome(AdminHeader, id, TRUE, TRUE, wa, wp)
                reject == AdminRejectOutcome(AdminHeader, id, TRUE, wp)
            IN  /\ approve.resp.status = 404
                /\ approve.pendingFile = pendingFile
                /\ approve.approvedFile = approvedFile
                /\ approve.writes = 0
                /\ reject.resp.status = 404
                /\ reject.pendingFile = pendingFile
                /\ reject.writes = 0

\* a 404 was answered to an approve or a reject while records were pending
C7_Witness ==
    /\ resp.op \in {"adminApprove", "adminReject"}
    /\ resp.status = 404
    /\ pendingFile # <<>>

\* C8: a request to list pending, render the admin view, approve or reject
\* that carries no valid admin credentials is answered 401 before the
\* missing-id check and the lookup, and changes neither collection; the
\* public read and the submission never answer 401.
C8_AdminGateFirst ==
    /\ \A h \in AuthHeaders \ {AdminHeader} :
          /\ AdminPageOutcome(h, pendingFile, approvedFile).resp = Unauthorized("adminPage")
          /\ AdminPendingOutcome(h, pendingFile).resp = Unauthorized("adminPending")
          /\ \A id \in BodyIds, wa \in BOOLEAN, wp \in BOOLEAN :
                LET approve == AdminApproveOutcome(h, id, TRUE, TRUE, wa, wp)
                    reject == AdminRejectOutcome(h, id, TRUE, wp)
                IN  /\ approve.resp = Unauthorized("adminApprove")
                    /\ approve.pendingFile = pendingFile
                    /\ approve.approvedFile = approvedFile
                    /\ approve.writes = 0
                    /\ reject.resp = Unauthorized("adminReject")
                    /\ reject.pendingFile = pendingFile
                    /\ reject.writes = 0
    /\ resp.op \in {"getSignals", "postSignals"} => resp.status # 401
    /\ resp.status = 401 => resp.challenge

\* an approve was turned away with 401 while a record was pending, and the
\* record is still pending and unpublished
C8_Witness ==
    /\ resp.op = "adminApprove"
    /\ resp.status = 401
    /\ pendingFile # <<>>
    /\ approvedFile = <<>>

\* the allowed submissions of an identity whose timestamps lie within the
\* trailing window of instant t
InWindow(ip, t) ==
    Cardinality({ i \in 1..Len(HitsOf(allowedLog, ip)) :
                    t - HitsOf(allowedLog, ip)[i] <= RATE_LIMIT_WINDOW_MS })

\* no stretch of RATE_LIMIT_WINDOW_MS holds more than the maximum of allowed submissions
NoCrowdedWindow ==
    \A ip \in DOMAIN allowedLog :
        \A i \in 1..(Len(allowedLog[ip]) - RATE_LIMIT_MAX_SUBMISSIONS) :
            allowedLog[ip][i + RATE_LIMIT_MAX_SUBMISSIONS] - allowedLog[ip][i]
                > RATE_LIMIT_WINDOW_MS

\* C9: per identity, a submission is let pass exactly while fewer than 5
\* allowed ones lie within the trailing 10 minutes and is answered 429
\* otherwise, so no 10-minute window holds more than 5 allowed submissions;
\* once the oldest counted timestamp is more than 10 minutes old a
\* submission is let pass again.
C9_SlidingWindow ==
    [][ \A req \in {DirectReq, ProxiedReq}, incoming \in Payloads, rnd \in RandomHex :
          PostSignals(req, incoming, rnd, TRUE, TRUE) =>
              LET ip == getClientIp(req)
              IN  /\ resp'.status = 429 <=> InWindow(ip, now) >= RATE_LIMIT_MAX_SUBMISSIONS
                  /\ resp'.status # 429 => Len(HitsOf(allowedLog', ip))
                                             = Len(HitsOf(allowedLog, ip)) + 1
                  /\ NoCrowdedWindow'
                  /\ ( /\ HitsOf(submissionHits, ip) # <<>>
                       /\ now - HitsOf(submissionHits, ip)[1] > RATE_LIMIT_WINDOW_MS )
                     => resp'.status # 429 ]_vars

\* five submissions of one identity within a second, and its sixth let pass
\* once the first of them was more than ten minutes old
C9_Witness ==
    LET log == HitsOf(allowedLog, getClientIp(DirectReq))
    IN  /\ Len(log) = RATE_LIMIT_MAX_SUBMISSIONS + 1
        /\ log[RATE_LIMIT_MAX_SUBMISSIONS] <= 1000
        /\ log[RATE_LIMIT_MAX_SUBMISSIONS + 1] > log[1] + RATE_LIMIT_WINDOW_MS
        /\ resp.op = "postSignals"
        /\ resp.status \in {201, 400}

\* C10: whenever a submission of an identity would be answered 429, the
\* advertised retryAfterSeconds is at least 1 and a submission of that
\* identity made exactly that many seconds later, with none of its own in
\* between, is let pass.
C10_RetryAfterSuffices ==
    \A req \in {DirectReq, ProxiedReq} :
        LET ip == getClientIp(req)
            limit == enforceSubmissionRateLimit(submissionHits, ip, now)
        IN  ~limit.allowed =>
              /\ limit.retryAfterSec >= 1
              /\ enforceSubmissionRateLimit(submissionHits, ip,
                                            now + limit.retryAfterSec * 1000).allowed

AdminRoutes == {"adminPage", "adminPending", "adminApprove", "adminReject"}

\* the header of the request the last answer of an admin route went to
LastHeader == answers[Len(answers)].authorization

\* what the decoded remainder of a header must be for the claim's condition
AcceptCondition(header) ==
    /\ StartsWith(header, BasicPrefix)
    /\ LET decoded == Base64Decode(SubSeq(header, 7, Len(header)))
           idx == IndexOf(decoded, ":")
       IN  /\ idx # 0
           /\ SubSeq(decoded, 1, idx - 1) = ADMIN_USER
           /\ SubSeq(decoded, idx + 1, Len(decoded)) = ADMIN_PASS

ShouldAccept == { h \in ProbeHeaders : AcceptCondition(h) }

\* secrets with colons in them, as the configured secret
ColonSecrets == { <<":">>, <<"a", ":", "b">>, <<":", "a", ":", ":">> }

ColonSecretsAccepted ==
    \A p \in ColonSecrets :
        LET creds == parseBasicAuth(BasicHeader(ADMIN_USER, p))
        IN  creds.ok /\ safeEqual(creds.user, ADMIN_USER) /\ safeEqual(creds.pass, p)

\* C11: the admin gate lets a request pass exactly when its header starts
\* with 'Basic ', the rest base64-decodes to text with a colon, the text
\* before the first colon is the admin identity and all text after it is the
\* admin secret; the correct identity and secret pass (a secret with colons
\* too) and every value with one character replaced, dropped or added is
\* turned away with 401.
C11_AuthenticateExact ==
    /\ \A h \in ProbeHeaders : AdminGate[h] <=> h \in ShouldAccept
    /\ \A h \in AdminHeaders : AdminGate[h]
    /\ \A h \in IdentityMismatch \cup SecretMismatch \cup LengthMismatch : ~AdminGate[h]
    /\ ColonSecretsAccepted
    /\ (answers # <<>> /\ resp.op \in AdminRoutes) =>
          (resp.status # 401 <=> LastHeader \in ShouldAccept)

\* an approve of the pending record, sent with one character of the secret
\* replaced, was answered 401
C11_Witness ==
    /\ answers # <<>>
    /\ resp.op = "adminApprove"
    /\ resp.status = 401
    /\ LastHeader \in { BasicHeader(ADMIN_USER, p) : p \in Substitutions(ADMIN_PASS) }
    /\ answers[1].id.s \in IdsOf(pendingFile)

\* every way of failing the admin gate
FailingHeaders ==
    MissingHeader \cup WrongScheme \cup UndecodableEncoding \cup NoColon
    \cup IdentityMismatch \cup SecretMismatch \cup LengthMismatch \cup BothMismatch

\* the one response of a failed authentication: status, body, challenge
IsAuthRequired(r) ==
    /\ r.status = 401
    /\ r.message = "Admin authentication required"
    /\ r.challenge
    /\ r.body = <<>>
    /\ r.id = NoId
    /\ r.retryAfterSec = 0

\* C12: whatever makes the authentication fail (no header, another scheme,
\* an encoding that decodes to nothing or to no text, no colon, a value of
\* another length, a wrong identity, a wrong secret, both wrong), every admin
\* route answers the same 401 with the same body and the same Basic
\* challenge, and leaves pending and approved as they are.
C12_UniformRejection ==
    /\ \A h \in FailingHeaders :
          /\ IsAuthRequired(AdminPageOutcome(h, pendingFile, approvedFile).resp)
          /\ IsAuthRequired(AdminPendingOutcome(h, pendingFile).resp)
          /\ \A id \in AuthBodyIds :
                LET approve == AdminApproveOutcome(h, id, TRUE, TRUE, TRUE, TRUE)
                    reject == AdminRejectOutcome(h, id, TRUE, TRUE)
                IN  /\ IsAuthRequired(approve.resp)
                    /\ approve.pendingFile = pendingFile
                    /\ approve.approvedFile = approvedFile
                    /\ approve.writes = 0
                    /\ IsAuthRequired(reject.resp)
                    /\ reject.pendingFile = pendingFile
                    /\ reject.writes = 0
    /\ (answers # <<>> /\ resp.op \in AdminRoutes /\ LastHeader \in FailingHeaders) =>
          IsAuthRequired(resp)

\* a reject of the pending record under an undecodable encoding was
\* answered 401 and the record is still pending
C12_Witness ==
    /\ answers # <<>>
    /\ resp.op = "adminReject"
    /\ IsAuthRequired(resp)
    /\ LastHeader \in UndecodableEncoding
    /\ answers[1].id.s \in IdsOf(pendingFile)
    /\ approvedFile = <<>>

\* the answers that reported success to a request of this route
Succeeded(route) ==
    { i \in 1..Len(answers) : answers[i].route = route /\ answers[i].status \in {200, 201} }

SerialsOf(indices) == { answers[i].serial : i \in indices }

\* every mutation that was reported successful is in the files: a created
\* record is pending, an approved one is in approved only, a rejected one is
\* nowhere, and no record was both approved and rejected or approved twice
NoLostUpdate ==
    /\ \A s \in SerialsOf(Succeeded("postSignals")) :
          IF s \in SerialsOf(Succeeded("adminReject"))
          THEN Copies(pendingFile, s) = 0 /\ Copies(approvedFile, s) = 0
          ELSE IF s \in SerialsOf(Succeeded("adminApprove"))
          THEN Copies(pendingFile, s) = 0 /\ Copies(approvedFile, s) = 1
          ELSE Copies(pendingFile, s) = 1 /\ Copies(approvedFile, s) = 0
    /\ \A i, j \in Succeeded("adminApprove") \cup Succeeded("adminReject") :
          i # j => answers[i].serial # answers[j].serial

\* two answered requests that were in flight at the same time
Concurrent(i, j) == i # j /\ answers[i].rid \in answers[j].overlap

LastAnswer == answers[Len(answers)]

\* C14: submit, approve and reject answer 201 / 200 only when every write
\* they made succeeded and answer 500 when one failed; approve makes both of
\* its writes whatever the first one returned and answers 500 when either
\* failed.
C14_SuccessOnlyIfWritten ==
    /\ \A i \in 1..Len(answers) :
          /\ answers[i].faulted => answers[i].status = 500
          /\ answers[i].status = 500 => answers[i].faulted
    /\ \A id \in DeskIds, wa \in BOOLEAN, wp \in BOOLEAN :
          LET approve == AdminApproveOutcome(AdminHeader, id, TRUE, TRUE, wa, wp)
              reject == AdminRejectOutcome(AdminHeader, id, TRUE, wp)
          IN  id.s \in IdsOf(pendingFile) =>
                /\ approve.writes = 2
                /\ approve.resp.status = IF wa /\ wp THEN 200 ELSE 500
                /\ wa <=> approve.approvedFile # approvedFile
                /\ wp <=> approve.pendingFile # pendingFile
                /\ reject.writes = 1
                /\ reject.resp.status = IF wp THEN 200 ELSE 500

\* an approve whose write of approved succeeded and whose write of pending
\* failed was answered 500
C14_Witness ==
    /\ answers # <<>>
    /\ LastAnswer.route = "adminApprove"
    /\ LastAnswer.faulted
    /\ LastAnswer.status = 500
    /\ LastAnswer.id.s \in IdsOf(pendingFile) \cap IdsOf(approvedFile)

\* how many records of a collection carry this id
CopiesOfId(list, id) == Cardinality({ i \in 1..Len(list) : list[i].id = id })

\* C15: when an approve or a reject was answered 500 and the same request
\* is repeated with no write failing, the repetition is answered 200 and the
\* record is once in approved and not in pending (approve), or in neither
\* collection (reject).
C15_RetryRecovers ==
    ( /\ Len(answers) = 2
      /\ answers[1].route \in {"adminApprove", "adminReject"}
      /\ answers[1].status = 500
      /\ answers[2].route = answers[1].route
      /\ answers[2].id = answers[1].id
      /\ ~answers[2].faulted ) =>
        /\ answers[2].status = 200
        /\ CopiesOfId(pendingFile, answers[2].id.s) = 0
        /\ CopiesOfId(approvedFile, answers[2].id.s)
             = IF answers[2].route = "adminApprove" THEN 1 ELSE 0

\* C16: every record in pending has status 'pending' and every record in
\* approved has status 'approved', also when the submitted payload carried a
\* status of its own.
C16_StatusMatchesCollection ==
    /\ \A i \in 1..Len(pendingFile) : pendingFile[i].status = Pending
    /\ \A i \in 1..Len(approvedFile) : approvedFile[i].status = Approved

\* a record submitted with status and approvedAt 'approved' is pending with
\* status 'pending' while another record is in approved
C16_Witness ==
    /\ \E i \in 1..Len(pendingFile) :
          pendingFile[i].approvedAt = ClaimsApproved /\ pendingFile[i].status = Pending
    /\ approvedFile # <<>>

\* C17: a record has an approvedAt field exactly when its status is
\* 'approved'; no record in pending has one, whatever fields the submitted
\* payload carried.
C17_ApprovedAtIffApproved ==
    \A i \in 1..Len(AllRecords) :
        AllRecords[i].approvedAt # Undef <=> AllRecords[i].status = Approved

\* C18: approved only grows at its end, by an approve appending the
\* approved form of a record that was pending; every record in approved
\* stays there unmodified through any later submit, approve and reject.
C18_ApprovedIsTerminal ==
    [][ \/ approvedFile' = approvedFile
        \/ /\ resp'.op = "adminApprove"
           /\ Len(approvedFile') = Len(approvedFile) + 1
           /\ SubSeq(approvedFile', 1, Len(approvedFile)) = approvedFile
           /\ \E i \in 1..Len(pendingFile) :
                 approvedFile'[Len(approvedFile')]
                   = [pendingFile[i] EXCEPT !.status = Approved, !.approvedAt = TimeString(now)]
      ]_vars

\* two records were approved one after the other, the first is still the
\* first of approved, and a later reject was answered
C18_Witness ==
    /\ Len(approvedFile) = 2
    /\ approvedFile[1].serial # approvedFile[2].serial
    /\ resp.op = "adminReject"

\* the claim's condition on a payload
ShapeOk(p) ==
    /\ p.obj
    /\ IsString(p.title) /\ Trim(p.title.s) # <<>>
    /\ IsString(p.startTime) /\ Trim(p.startTime.s) # <<>>
    /\ Trim(p.startTime.s) \in ParseableDates

ValidatorExact == \A p \in ValidatorPayloads : validateIncomingSignal(p).ok <=> ShapeOk(p)

\* payloads that agree on being an object, on title and on startTime get
\* the same verdict
OtherFieldsIgnored ==
    \A p, q \in ValidatorPayloads :
        (p.obj = q.obj /\ p.title = q.title /\ p.startTime = q.startTime) =>
            validateIncomingSignal(p) = validateIncomingSignal(q)

\* C19: the validator accepts exactly the objects whose title is a string
\* that is non-empty after trimming and whose startTime is a string that is
\* non-empty after trimming and parses to an instant, whatever other fields
\* they carry; a submission it refuses (and the limiter lets pass) is
\* answered 400 with the validator's reason and pending stays as it is.
C19_ValidatorExact ==
    [][ \A incoming \in ValidatorPayloads, rnd \in RandomHex \cup {<<>>} :
          PostSignals(DirectReq, incoming, rnd, TRUE, TRUE) =>
              /\ ValidatorExact
              /\ OtherFieldsIgnored
              /\ resp'.status # 429 => (resp'.status = 400 <=> ~ShapeOk(incoming))
              /\ resp'.status = 400 =>
                    /\ resp'.message = validateIncomingSignal(incoming).message
                    /\ resp'.message \in {"Invalid payload", "Missing title",
                                          "Missing or invalid startTime"}
                    /\ pendingFile' = pendingFile
                    /\ approvedFile' = approvedFile
              /\ (resp'.status # 429 /\ ShapeOk(incoming)) =>
                    /\ resp'.status = 201
                    /\ Len(pendingFile') = Len(pendingFile) + 1 ]_vars

\* a submission with a startTime that does not parse was answered 400 while
\* an earlier record is pending
C19_Witness ==
    /\ resp.op = "postSignals"
    /\ resp.status = 400
    /\ resp.message = "Missing or invalid startTime"
    /\ Len(pendingFile) = 1

\* a list without its i-th element
Without(list, i) == SubSeq(list, 1, i - 1) \o SubSeq(list, i + 1, Len(list))

\* C20: an approve or a reject, also one sent from a listing that is no
\* longer current, removes from pending at most one record and only one whose
\* id is the requested id, and appends to approved only the approved form
\* of that record; every other pending record stays in pending, unchanged
\* and in its place relative to the others.
C20_ExactIdOnly ==
    \A id \in DeskIds, wa \in BOOLEAN, wp \in BOOLEAN :
        LET approve == AdminApproveOutcome(AdminHeader, id, TRUE, TRUE, wa, wp)
            reject == AdminRejectOutcome(AdminHeader, id, TRUE, wp)
            hit(i) == pendingFile[i].id = id.s
        IN  /\ \/ approve.pendingFile = pendingFile
               \/ \E i \in 1..Len(pendingFile) :
                     hit(i) /\ approve.pendingFile = Without(pendingFile, i)
            /\ \/ approve.approvedFile = approvedFile
               \/ \E i \in 1..Len(pendingFile) :
                     /\ hit(i)
                     /\ approve.approvedFile
                          = Append(approvedFile,
                                   [pendingFile[i] EXCEPT !.status = Approved,
                                                          !.approvedAt = TimeString(now)])
            /\ \/ reject.pendingFile = pendingFile
               \/ \E i \in 1..Len(pendingFile) :
                     hit(i) /\ reject.pendingFile = Without(pendingFile, i)
            /\ id.s \notin IdsOf(pendingFile) =>
                  /\ approve.pendingFile = pendingFile
                  /\ approve.approvedFile = approvedFile
                  /\ reject.pendingFile = pendingFile

\* the first of two pending records was rejected; an approve of the same id,
\* from the listing that still showed it, was answered 404 and the record
\* that moved into its place is still pending
C20_Witness ==
    /\ Len(answers) = 2
    /\ answers[1].route = "adminReject" /\ answers[1].status = 200
    /\ answers[2].route = "adminApprove" /\ answers[2].status = 404
    /\ answers[2].id = answers[1].id
    /\ Len(pendingFile) = 1
    /\ pendingFile[1].serial > answers[1].serial
    /\ approvedFile = <<>>

(***************************************************************************)
(* What the limiter's Map holds.                                           *)
(***************************************************************************)
\* the timestamps of an identity that count toward the limit at instant t
CountedHits(hits, ip, t) == Len(RecentHits(HitsOf(hits, ip), t))

\* the submission just answered was turned away by the limiter or the validator
NotAccepted == resp'.op = "postSignals" /\ resp'.status \in {400, 429}

\* C21: a submit attempt that is not accepted, answered 429 by the limiter
\* or 400 by the validator, adds no timestamp to the list of any identity
\* and does not count toward the limit of 5: after it, no identity has more
\* timestamps inside the window than before it.
C21_LimiterHoldsAcceptedOnly ==
    [][NotAccepted =>
         \A ip \in DOMAIN submissionHits' :
             CountedHits(submissionHits', ip, now') <= CountedHits(submissionHits, ip, now)]_vars

(***************************************************************************)
(* The ids of stored records: submissions with and without an id of their  *)
(* own, several of them within one millisecond; every submission is        *)
(* logged with the id field of its body.                                   *)
(***************************************************************************)
MaxMintSubmits == 3
MaxMintNow == 2

\* the id field of a submission body: absent, not a string, empty, a string
MintBodyIds == {Undef, Num, Str(<<>>), Str(<<"a">>)}

MintPayloads == { Payload(GoodTitle, GoodStart, id, Undef) : id \in MintBodyIds }

NextMintSubmit ==
    \E incoming \in MintPayloads :
        \E rnd \in RandomDraws(incoming) :
            /\ Submitted(DirectReq) < MaxMintSubmits
            /\ PostSignals(DirectReq, incoming, rnd, TRUE, TRUE)
            /\ answers' = Logged(answers,
                              [Answer("postSignals", <<>>, incoming.id, resp'.status) EXCEPT
                                 !.serial = nextSerial],
                              MaxMintSubmits)
            /\ UNCHANGED calls

NextMintTick == Tick(1, MaxMintNow) /\ UNCHANGED logVars

NextMint ==
    \/ NextMintSubmit
    \/ NextMintTick

SpecMint == Init /\ [][NextMint]_vars

\* the stored record a logged submission created
StoredBy(a) == AllRecords[CHOOSE k \in 1..Len(AllRecords) : AllRecords[k].serial = a.serial]

\* the logged submissions whose id the server minted
MintedAnswers == { i \in 1..Len(answers) : answers[i].status = 201 /\ MissingId(answers[i].id) }

\* sig-<time>-<random>, the time being that of the submission
HasMintedForm(r) ==
    \E rnd \in RandomHex : r.id = <<"s", "i", "g", "-">> \o r.submittedAt.s \o <<"-">> \o rnd

\* an id of the body is kept exactly when it is a non-empty string, and an
\* id is minted in the form sig-<time>-<random> otherwise
KeepsOrMints ==
    \A i \in 1..Len(answers) :
        answers[i].status = 201 =>
            IF MissingId(answers[i].id)
            THEN HasMintedForm(StoredBy(answers[i]))
            ELSE StoredBy(answers[i]).id = answers[i].id.s

\* C22: submit keeps the id of the body only when it is a non-empty string
\* and otherwise mints one of the form sig-<time>-<random>, and any two
\* minted ids are distinct, also those minted within one millisecond.
C22_MintedIdsDistinct ==
    /\ KeepsOrMints
    /\ \A i, j \in MintedAnswers :
           i # j => StoredBy(answers[i]).id # StoredBy(answers[j]).id

(***************************************************************************)
(* The limiter under requests of several origins: with and without an      *)
(* x-forwarded-for header, with and without a connection address, all      *)
(* within one millisecond.  The last submission is logged with its         *)
(* addressing part.                                                        *)
(***************************************************************************)
\* x-forwarded-for: absent, not a string, blank, one entry, several entries,
\* an empty first entry
ForwardedHeaders ==
    { Undef, Num, Str(<<" ">>), Str(<<"7">>), Str(<<" ", "7", ",", "9">>),
      Str(<<",", "7">>) }

\* req.socket?.remoteAddress
RemoteAddresses == { Undef, Str(<<"9">>) }

IdentityReqs ==
    { [forwarded |-> f, remoteAddress |-> r] : f \in ForwardedHeaders, r \in RemoteAddresses }

\* one answered submission: its addressing part and the status answered
Submission(req, status) == [route |-> "postSignals", req |-> req, status |-> status]

NextIdentitySubmit ==
    \E req \in IdentityReqs :
        /\ PostSignals(req, Payload(GoodTitle, GoodStart, Num, Undef), <<"0", "a">>,
                       TRUE, TRUE)
        /\ answers' = <<Submission(req, resp'.status)>>
        /\ UNCHANGED calls

SpecIdentity == Init /\ [][NextIdentitySubmit]_vars

\* the identity of a request: the first comma-separated entry, trimmed, of
\* the forwarded-address header if that header is a non-blank string, else
\* the connection address, else the shared bucket
Identity(req) ==
    LET header == req.forwarded
        blank == \A k \in 1..Len(header.s) : IsSpace(header.s[k])
        comma == IndexOf(header.s, ",")
        first == IF comma = 0 THEN header.s ELSE SubSeq(header.s, 1, comma - 1)
    IN  IF header.t = "str" /\ ~blank THEN Trim(first)
        ELSE IF req.remoteAddress.t = "str" /\ req.remoteAddress.s # <<>>
             THEN req.remoteAddress.s
        ELSE <<"u", "n", "k", "n", "o", "w", "n">>

Identities == { Identity(req) : req \in IdentityReqs }

\* whether the limiter lets a submission of the identity pass
Allowed(hits, ip, t) == enforceSubmissionRateLimit(hits, ip, t).allowed

\* C23: rate-limit state is kept per identity, the identity being the first
\* entry, trimmed, of a non-blank forwarded-address header, else the
\* connection address, else 'unknown': a submission changes the stored
\* timestamps of its own identity only, and for every other identity
\* neither the timestamps nor whether a submission would be allowed.
C23_PerIdentity ==
    [][LET req == answers'[1].req
           status == answers'[1].status
           me == Identity(req)
       IN  /\ DOMAIN submissionHits' \subseteq DOMAIN submissionHits \cup {me}
           /\ status # 429 =>
                  submissionHits'[me] = Append(RecentHits(HitsOf(submissionHits, me), now), now)
           /\ \A ip \in (Identities \cup DOMAIN submissionHits) \ {me} :
                  /\ HitsOf(submissionHits', ip) = HitsOf(submissionHits, ip)
                  /\ Allowed(submissionHits', ip, now') = Allowed(submissionHits, ip, now)]_vars

\* a submission that came through a proxy is let pass while the identity of
\* the connection address, and only that, has used up its limit
C23_Witness ==
    /\ answers # <<>>
    /\ answers[1].status = 201
    /\ answers[1].req = ProxiedReq
    /\ Identity(ProxiedReq) # Identity(DirectReq)
    /\ ~Allowed(submissionHits, Identity(DirectReq), now)
    /\ Allowed(submissionHits, Identity(ProxiedReq), now)
    /\ \A ip \in Identities : HitsOf(submissionHits, ip) # <<>>

(***************************************************************************)
(* The mutating routes when a file read may fail: readJsonArray then       *)
(* returns [] although the file is intact.  Writes succeed, the admin is   *)
(* authenticated, ids differ from every id used before.  The last request  *)
(* is logged with whether its read failed.                                 *)
(***************************************************************************)
MaxReadSubmits == 3

ReadPayloads == { Payload(GoodTitle, GoodStart, Str(<<c>>), Undef) : c \in {"a", "b", "c"} }

\* one answered request and whether the read of the collection it appends
\* to took the catch branch of readJsonArray
Served(route, status, readFailed) ==
    [route |-> route, status |-> status, readFailed |-> readFailed]

NextReadSubmit ==
    \E incoming \in ReadPayloads, pendingReadOk \in BOOLEAN :
        /\ Submitted(DirectReq) < MaxReadSubmits
        /\ incoming.id.s \notin UsedIds
        /\ PostSignals(DirectReq, incoming, <<>>, pendingReadOk, TRUE)
        /\ answers' = <<Served("postSignals", resp'.status, ~pendingReadOk)>>
        /\ UNCHANGED calls

NextReadApprove ==
    \E id \in DeskIds, pendingReadOk \in BOOLEAN, approvedReadOk \in BOOLEAN :
        /\ AdminApprove(AdminHeader, id, pendingReadOk, approvedReadOk, TRUE, TRUE)
        /\ answers' = <<Served("adminApprove", resp'.status, ~approvedReadOk)>>
        /\ UNCHANGED calls

NextRead ==
    \/ NextReadSubmit
    \/ NextReadApprove

SpecRead == Init /\ [][NextRead]_vars

\* every record of the list before is in the list after
Keeps(after, before) ==
    \A k \in 1..Len(before) : \E m \in 1..Len(after) : after[m] = before[k]

\* C24: when the read of pending in submit, or of approved in approve,
\* degrades to an empty sequence while the stored collection is intact, the
\* collection still holds, after the operation, every record it held before.
C24_ReadFailureCostsNoData ==
    [][LET served == answers'[1]
       IN  served.readFailed =>
               /\ served.route = "postSignals" => Keeps(pendingFile', pendingFile)
               /\ served.route = "adminApprove" => Keeps(approvedFile', approvedFile)]_vars

====
